---- MODULE Spec2Model ----
(***************************************************************************)
(* Model of the lineup generator of szincone/nfl-lineup-generator.         *)
(*                                                                         *)
(* combiner/combine_nfl_dfs.py is a straight-line script: it merges the    *)
(* scraped offence table `stats` with the DraftKings export `dk`, drops    *)
(* the rows without a salary, splits the merged frame by position, filters *)
(* every positional pool by its thresholds and draws the nine slots of     *)
(* `team`.  lineup_generator.py imports `combo` and `dk_def` from that     *)
(* package (so it runs after the combiner's module body has completed)     *)
(* and draws its own nine slots, `lineup`, from the unfiltered pools.      *)
(*                                                                         *)
(* A cell of a pandas column is modelled as a record [k, n, d]:            *)
(*   k = "fin": the rational n/d (d > 0);  k = "nan", "inf", "ninf": the   *)
(*   float64 values NaN, +inf and -inf.                                    *)
(* A frame is a sequence of rows; `idx` is the row's index label.          *)
(***************************************************************************)
EXTENDS Integers, Sequences, FiniteSets, TLC

VARIABLES pc,        \* position in the scripts
          stats,     \* scrape_fb_ref_off.stats (input)
          dk,        \* the DraftKings csv as a frame (input)
          dk_def, combo,
          qb_raw, wr_raw, rb_raw, te_raw, flex_raw,
          qb, wr, rb, te, flex, defense,
          team,      \* combiner/combine_nfl_dfs.py: team_raw / team
          lineup,    \* lineup_generator.py: team_raw / lineup
          err        \* the uncaught exception that ended the run, if any

vars == <<pc, stats, dk, dk_def, combo, qb_raw, wr_raw, rb_raw, te_raw,
          flex_raw, qb, wr, rb, te, flex, defense, team, lineup, err>>

-----------------------------------------------------------------------------
(* float64 cells *)

Fin(x) == [k |-> "fin", n |-> x, d |-> 1]
Frac(x, y) == [k |-> "fin", n |-> x, d |-> y]
NaN == [k |-> "nan", n |-> 0, d |-> 1]
PosInf == [k |-> "inf", n |-> 0, d |-> 1]
NegInf == [k |-> "ninf", n |-> 0, d |-> 1]

IsNull(x) == x.k = "nan"

\* Series / Series: float64 true division, element by element.  A zero
\* denominator raises nothing: it gives +inf, -inf or NaN.
Div(a, b) ==
  IF a.k # "fin" \/ b.k # "fin" THEN NaN
  ELSE IF b.n = 0
       THEN (IF a.n > 0 THEN PosInf ELSE IF a.n < 0 THEN NegInf ELSE NaN)
       ELSE IF b.n > 0 THEN Frac(a.n * b.d, a.d * b.n)
                       ELSE Frac(0 - (a.n * b.d), 0 - (a.d * b.n))

\* a > b on float64: every comparison with NaN is False.
Gt(a, b) ==
  IF a.k = "nan" \/ b.k = "nan" THEN FALSE
  ELSE IF a.k = "inf" THEN b.k # "inf"
  ELSE IF a.k = "ninf" THEN FALSE
  ELSE IF b.k = "inf" THEN FALSE
  ELSE IF b.k = "ninf" THEN TRUE
  ELSE a.n * b.d > b.n * a.d

\* a >= b on float64.
Ge(a, b) ==
  IF a.k = "nan" \/ b.k = "nan" THEN FALSE
  ELSE IF a.k = "inf" THEN TRUE
  ELSE IF b.k = "ninf" THEN TRUE
  ELSE IF a.k = "ninf" \/ b.k = "inf" THEN FALSE
  ELSE a.n * b.d >= b.n * a.d

-----------------------------------------------------------------------------
(* frames *)

Column(frame, c) == [i \in 1..Len(frame) |-> frame[i][c]]

Rows(frame) == {frame[i] : i \in 1..Len(frame)}

NamesOf(frame) == {frame[i].Name : i \in 1..Len(frame)}

\* a < b on two finite cells, the order Series.quantile sorts by.
Less(a, b) == a.n * b.d < b.n * a.d

\* Series.quantile(q = qn/qd): NaN cells are skipped, the rest is sorted and
\* the value at position (n-1)*q is interpolated linearly between its two
\* neighbours, lo + frac * (hi - lo); an empty column gives NaN.  The cells
\* are rationals and the arithmetic is exact.
Quantile(col, qn, qd) ==
  LET present == SelectSeq(col, LAMBDA x : ~IsNull(x))
      sorted  == SortSeq(present, Less)
      n       == Len(sorted)
      h       == (n - 1) * qn
      lo      == (h \div qd) + 1
      r       == h % qd
  IN  IF n = 0 THEN NaN
      ELSE IF r = 0 THEN sorted[lo]
      ELSE LET a == sorted[lo]
               b == sorted[lo + 1]
           IN  Frac(a.n * b.d * qd + r * (b.n * a.d - a.n * b.d),
                    a.d * b.d * qd)

-----------------------------------------------------------------------------
(* inputs *)

\* The merge key values, in the order merge_ordered sorts them.
NameOrder == <<"Alice", "Bob", "Cara", "Quinn", "Ted", "Tom", "Wes", "Will", "Zed">>

StatRow(name, pos, tgt, att, cmp, patt, yds, vbd) ==
  [Name |-> name, FantPos |-> pos, Tgt |-> Fin(tgt), Att |-> Fin(att),
   Pass_Cmp |-> Fin(cmp), Pass_Att |-> Fin(patt), Pass_Yds |-> Fin(yds),
   VBD |-> vbd]

DkRow(name, pos, salary, avg) ==
  [Name |-> name, Position |-> pos, Salary |-> salary, AvgPointsPerGame |-> avg]

\* A row of `stats` that has no DraftKings row, and the reverse.
NoDk == [Position |-> "NaN", Salary |-> NaN, AvgPointsPerGame |-> NaN]
NoStats == [FantPos |-> "NaN", Tgt |-> NaN, Att |-> NaN, Pass_Cmp |-> NaN,
            Pass_Att |-> NaN, Pass_Yds |-> NaN, VBD |-> NaN]

-----------------------------------------------------------------------------
(* combiner/combine_nfl_dfs.py, lines 33-53: merge and split *)

RowOf(frame, name) == frame[CHOOSE i \in 1..Len(frame) : frame[i].Name = name]

DkPart(r) == [Position |-> r.Position, Salary |-> r.Salary,
              AvgPointsPerGame |-> r.AvgPointsPerGame]

StatsPart(r) == [FantPos |-> r.FantPos, Tgt |-> r.Tgt, Att |-> r.Att,
                 Pass_Cmp |-> r.Pass_Cmp, Pass_Att |-> r.Pass_Att,
                 Pass_Yds |-> r.Pass_Yds, VBD |-> r.VBD]

\* pd.merge_ordered(left, right, on='Name'): an outer join on Name, ordered by
\* the key; a side that has no row for the key contributes NaN cells.  The
\* result has a fresh RangeIndex.
MergeOrdered(left, right) ==
  LET keys == SelectSeq(NameOrder,
                        LAMBDA nm : nm \in NamesOf(left) \cup NamesOf(right))
  IN  [i \in 1..Len(keys) |->
         [idx |-> i - 1, Name |-> keys[i]]
           @@ (IF keys[i] \in NamesOf(left)
               THEN StatsPart(RowOf(left, keys[i])) ELSE NoStats)
           @@ (IF keys[i] \in NamesOf(right)
               THEN DkPart(RowOf(right, keys[i])) ELSE NoDk)]

\* Mutant of SalaryNotNull: the rows without a salary are kept.
SalaryKept(frame) == frame

\* combo_raw[combo_raw.Salary.notnull()]
SalaryNotNull(frame) == SelectSeq(frame, LAMBDA r : ~IsNull(r.Salary))

\* dk[dk['Position'] == 'DST'] and dk[dk['Position'] != 'DST']
DkDef(d) == SelectSeq(d, LAMBDA r : r.Position = "DST")
DkPlayers(d) == SelectSeq(d, LAMBDA r : r.Position # "DST")

Combo(s, d) == SalaryNotNull(MergeOrdered(s, DkPlayers(d)))

ByFantPos(cmb, pos) == SelectSeq(cmb, LAMBDA r : r.FantPos = pos)

FlexRaw(cmb) == SelectSeq(cmb, LAMBDA r : r.FantPos \in {"RB", "WR", "TE"})

-----------------------------------------------------------------------------
(* combiner/combine_nfl_dfs.py, lines 55-84: thresholds and qualified pools *)

wr_targets(wrRaw) == Quantile(Column(wrRaw, "Tgt"), 3, 4)

\* The VBD mask of line 58 is taken over `combo`, not over wr_raw; pandas
\* aligns it on the index label.
MaskAt(cmb, label) ==
  \E i \in 1..Len(cmb) : cmb[i].idx = label /\ Gt(cmb[i].VBD, Fin(2))

QualifiedWR(wrRaw, cmb) ==
  SelectSeq(wrRaw, LAMBDA r :
    /\ Ge(r.Tgt, wr_targets(wrRaw))
    /\ MaskAt(cmb, r.idx))

\* Mutant of rb_attempts: the median instead of the 75th percentile.
RbAttemptsMedian(rbRaw) == Quantile(Column(rbRaw, "Att"), 1, 2)

rb_attempts(rbRaw) == Quantile(Column(rbRaw, "Att"), 3, 4)

QualifiedRB(rbRaw) ==
  SelectSeq(rbRaw, LAMBDA r :
    Ge(r.Att, rb_attempts(rbRaw)) /\ Gt(r.VBD, Frac(3, 2)))

cmp_per(r) == Div(r.Pass_Cmp, r.Pass_Att)
pypa(r) == Div(r.Pass_Yds, r.Pass_Att)

QualifiedQB(qbRaw) ==
  SelectSeq(qbRaw, LAMBDA r :
    Gt(cmp_per(r), Frac(3, 5)) /\ Gt(pypa(r), Fin(5)) /\ Gt(r.VBD, Fin(2)))

\* Mutant of te_targets: the percentile of the TE rows' own targets.
TeTargetsOwn(wrRaw, teRaw) == Quantile(Column(teRaw, "Tgt"), 3, 4)

\* Line 72: the TE cutoff is read from wr_raw, not from te_raw.
te_targets(wrRaw, teRaw) == Quantile(Column(wrRaw, "Tgt"), 3, 4)

QualifiedTE(wrRaw, teRaw) ==
  SelectSeq(teRaw, LAMBDA r :
    Ge(r.Tgt, te_targets(wrRaw, teRaw)) /\ Gt(r.VBD, Fin(2)))

flex_targets(flexRaw) == Quantile(Column(flexRaw, "Tgt"), 3, 4)
flex_attempts(flexRaw) == Quantile(Column(flexRaw, "Att"), 3, 4)

QualifiedFlex(flexRaw) ==
  SelectSeq(flexRaw, LAMBDA r :
    /\ Ge(r.Tgt, flex_targets(flexRaw)) \/ Ge(r.Att, flex_attempts(flexRaw))
    /\ Gt(r.VBD, Fin(2)))

d_arg(dkDef) == Quantile(Column(dkDef, "AvgPointsPerGame"), 1, 4)

\* Mutant of QualifiedDST: a strict comparison with the cutoff.
QualifiedDSTStrict(dkDef) ==
  SelectSeq(dkDef, LAMBDA r : Gt(r.AvgPointsPerGame, d_arg(dkDef)))

QualifiedDST(dkDef) ==
  SelectSeq(dkDef, LAMBDA r : Ge(r.AvgPointsPerGame, d_arg(dkDef)))

-----------------------------------------------------------------------------
(* lines 86-107: the draws *)

Slots == <<"QB", "RB1", "RB2", "WR1", "WR2", "WR3", "TE", "FLEX", "DST">>

\* The random index of every slot, in the order the script draws them.
Ranges == <<"qbrng", "rbrng", "rbrng2", "wrrng", "wrrng2", "wrrng3",
            "terng", "flexrng", "defenserng">>

\* random.randint(a, b): an integer of a..b; ValueError when the range is empty.
RandInt(a, b) == a..b

\* frame.sample(frac=1): the rows in any order.
Sample(frame) ==
  {[i \in 1..Len(frame) |-> frame[p[i]]] : p \in Permutations(1..Len(frame))}

\* frame.iloc[i], 0-based
Iloc(frame, i) == frame[i + 1]

\* The pools the nine slots draw from, in slot order.
SlotPools(q, r, w, t, f, d) == <<q, r, r, w, w, w, t, f, d>>

\* The first draw of lines 87-95 whose range is empty (0 when none is).
FirstEmpty(pools) ==
  IF \A i \in 1..Len(pools) : RandInt(0, Len(pools[i]) - 1) # {} THEN 0
  ELSE CHOOSE i \in 1..Len(pools) :
         /\ RandInt(0, Len(pools[i]) - 1) = {}
         /\ \A j \in 1..(i - 1) : RandInt(0, Len(pools[j]) - 1) # {}

\* What a slot can hold: pool.iloc[rng] for the QB, TE, FLEX and DST slots,
\* pool.sample(frac=1).iloc[rng] for the RB and WR slots, over every rng.
Picks(pool, shuffled) ==
  {Iloc(s, i) : s \in (IF shuffled THEN Sample(pool) ELSE {pool}),
                i \in RandInt(0, Len(pool) - 1)}

Shuffled(slot) == slot \in {"RB1", "RB2", "WR1", "WR2", "WR3"}

NoErr == [exc |-> "", at |-> ""]

\* Lines 98-107 once every index is drawn: the teams the draws can make.
Teams(pools) ==
  {<<q, r1, r2, w1, w2, w3, t, f, d>> :
     q  \in Picks(pools[1], Shuffled(Slots[1])),
     r1 \in Picks(pools[2], Shuffled(Slots[2])),
     r2 \in Picks(pools[3], Shuffled(Slots[3])),
     w1 \in Picks(pools[4], Shuffled(Slots[4])),
     w2 \in Picks(pools[5], Shuffled(Slots[5])),
     w3 \in Picks(pools[6], Shuffled(Slots[6])),
     t  \in Picks(pools[7], Shuffled(Slots[7])),
     f  \in Picks(pools[8], Shuffled(Slots[8])),
     d  \in Picks(pools[9], Shuffled(Slots[9]))}

\* Mutant of Generate: the slots drawn before the failing one are kept.
GenerateKeepsDrawn(pools) ==
  IF FirstEmpty(pools) # 0
  THEN {[team |-> [i \in 1..(FirstEmpty(pools) - 1) |-> Iloc(pools[i], 0)],
         err  |-> [exc |-> "ValueError", at |-> Ranges[FirstEmpty(pools)]]]}
  ELSE {[team |-> t, err |-> NoErr] : t \in Teams(pools)}

\* Lines 87-107 as a whole: every outcome [team, err] of one generation.  The
\* first empty pool raises randint's ValueError and nothing is assigned to
\* `team`.
Generate(pools) ==
  IF FirstEmpty(pools) # 0
  THEN {[team |-> <<>>,
         err  |-> [exc |-> "ValueError", at |-> Ranges[FirstEmpty(pools)]]]}
  ELSE {[team |-> t, err |-> NoErr] : t \in Teams(pools)}

-----------------------------------------------------------------------------
(* the inputs the model is run on *)

MaxTgt == 2     \* targets of the varied WR and TE rows range over 0..MaxTgt
MaxAvg == 2     \* AvgPointsPerGame of the DST rows ranges over 0..MaxAvg

Alice == StatRow("Alice", "RB", 0, 20, 0, 0, 0, Fin(2))
Bob   == StatRow("Bob", "RB", 0, 5, 0, 0, 0, Frac(1, 2))
Cara  == StatRow("Cara", "RB", 0, 22, 0, 0, 0, Fin(3))
Quinn == StatRow("Quinn", "QB", 0, 0, 7, 10, 60, Fin(3))
Ted   == StatRow("Ted", "TE", 2, 0, 0, 0, 0, Fin(3))
Wes   == StatRow("Wes", "WR", 2, 0, 0, 0, 0, Fin(3))
Will  == StatRow("Will", "WR", 1, 0, 0, 0, 0, Fin(3))
Tom   == StatRow("Tom", "TE", 1, 0, 0, 0, 0, Fin(3))

BaseStats == <<Quinn, Cara, Wes, Ted>>

\* The DraftKings rows of the players of a stats table, every one with a
\* salary, a player the scrape does not know (Zed), and the DST rows.
DkOf(s, dsts) ==
  [i \in 1..Len(s) |-> DkRow(s[i].Name, s[i].FantPos, Fin(5000), Fin(10))]
    \o <<DkRow("Zed", "WR", Fin(3000), Fin(0))>> \o dsts

Bears(avg) == DkRow("Bears", "DST", Fin(2500), avg)
Colts(avg) == DkRow("Colts", "DST", Fin(2600), avg)

BaseDst == <<Bears(Fin(1))>>

Input(s, d) == [stats |-> s, dk |-> d]

\* The one QB with every combination of completions, attempts, yards and VBD
\* around the three cutoffs, zero attempts included.
QBInputs ==
  {Input(<<StatRow("Quinn", "QB", 0, 0, c, a, y, v), Cara, Wes, Ted>>,
         DkOf(BaseStats, BaseDst)) :
     c \in {0, 6, 7}, a \in {0, 10}, y \in {0, 50, 60}, v \in {Fin(2), Frac(5, 2)}}

\* Three RBs, each with one of four stat lines (attempts, VBD).
RBLines == {<<20, Fin(2)>>, <<5, Frac(1, 2)>>, <<22, Fin(3)>>, <<22, Frac(3, 2)>>}

RBInputs ==
  {Input(<<Quinn, StatRow("Alice", "RB", 0, a[1], 0, 0, 0, a[2]),
                  StatRow("Bob", "RB", 0, b[1], 0, 0, 0, b[2]),
                  StatRow("Cara", "RB", 0, c[1], 0, 0, 0, c[2]), Wes, Ted>>,
         DkOf(<<Quinn, Alice, Bob, Cara, Wes, Ted>>, BaseDst)) :
     a \in RBLines, b \in RBLines, c \in RBLines}

\* Two WRs and two TEs with every target count of 0..MaxTgt (Will's fixed).
WRTEInputs ==
  {Input(<<Quinn, Cara, StatRow("Wes", "WR", w, 0, 0, 0, 0, Fin(3)), Will,
           StatRow("Ted", "TE", t1, 0, 0, 0, 0, v),
           StatRow("Tom", "TE", t2, 0, 0, 0, 0, Fin(3))>>,
         DkOf(<<Quinn, Cara, Wes, Will, Ted, Tom>>, BaseDst)) :
     w \in 0..MaxTgt, t1 \in 0..MaxTgt, t2 \in 0..MaxTgt, v \in {Fin(2), Fin(3)}}

\* No, one or two DST rows; a row's AvgPointsPerGame is a whole or a half
\* number of 0..MaxAvg, or missing.
AvgValues ==
  {NaN} \cup {Fin(x) : x \in 0..MaxAvg}
        \cup {Frac(2 * x - 1, 2) : x \in 1..MaxAvg}

DSTInputs ==
  {Input(BaseStats, DkOf(BaseStats, d)) :
     d \in {<<>>} \cup {<<Bears(x)>> : x \in AvgValues}
                  \cup {<<Bears(x), Colts(y)>> : x \in AvgValues, y \in AvgValues}}

\* One player of the scrape has no DraftKings row, or has one with an empty
\* Salary cell.
Without(frame, name) == SelectSeq(frame, LAMBDA r : r.Name # name)
NoSalary(frame, name) ==
  [i \in 1..Len(frame) |->
     IF frame[i].Name = name THEN [frame[i] EXCEPT !.Salary = NaN] ELSE frame[i]]

SalaryStats == <<Quinn, Alice, Cara, Wes, Ted>>

SalaryInputs ==
  {Input(SalaryStats, Without(DkOf(SalaryStats, BaseDst), nm)) : nm \in NamesOf(SalaryStats)}
    \cup {Input(SalaryStats, NoSalary(DkOf(SalaryStats, BaseDst), nm)) : nm \in NamesOf(SalaryStats)}

Inputs == QBInputs \cup RBInputs \cup WRTEInputs \cup DSTInputs \cup SalaryInputs

-----------------------------------------------------------------------------
(* the state machine *)

Init ==
  /\ \E in \in Inputs : stats = in.stats /\ dk = in.dk
  /\ pc = "start"
  /\ dk_def = <<>> /\ combo = <<>>
  /\ qb_raw = <<>> /\ wr_raw = <<>> /\ rb_raw = <<>> /\ te_raw = <<>>
  /\ flex_raw = <<>>
  /\ qb = <<>> /\ wr = <<>> /\ rb = <<>> /\ te = <<>> /\ flex = <<>>
  /\ defense = <<>>
  /\ team = <<>> /\ lineup = <<>>
  /\ err = NoErr

\* combiner/combine_nfl_dfs.py, lines 33-45
Merge ==
  /\ pc = "start"
  /\ dk_def' = DkDef(dk)
  /\ combo' = Combo(stats, dk)
  /\ pc' = "merged"
  /\ UNCHANGED <<stats, dk, qb_raw, wr_raw, rb_raw, te_raw, flex_raw,
                 qb, wr, rb, te, flex, defense, team, lineup, err>>

\* lines 47-53
Positions ==
  /\ pc = "merged"
  /\ qb_raw' = ByFantPos(combo, "QB")
  /\ wr_raw' = ByFantPos(combo, "WR")
  /\ rb_raw' = ByFantPos(combo, "RB")
  /\ te_raw' = ByFantPos(combo, "TE")
  /\ flex_raw' = FlexRaw(combo)
  /\ pc' = "positions"
  /\ UNCHANGED <<stats, dk, dk_def, combo, qb, wr, rb, te, flex, defense,
                 team, lineup, err>>

\* lines 55-84
Qualify ==
  /\ pc = "positions"
  /\ wr' = QualifiedWR(wr_raw, combo)
  /\ rb' = QualifiedRB(rb_raw)
  /\ qb' = QualifiedQB(qb_raw)
  /\ te' = QualifiedTE(wr_raw, te_raw)
  /\ flex' = QualifiedFlex(flex_raw)
  /\ defense' = QualifiedDST(dk_def)
  /\ pc' = "qualified"
  /\ UNCHANGED <<stats, dk, dk_def, combo, qb_raw, wr_raw, rb_raw, te_raw,
                 flex_raw, team, lineup, err>>

\* lines 86-107: the nine random indexes, the five shuffles and the team; an
\* empty pool ends the script with randint's ValueError before `team` exists.
MakeTeam ==
  /\ pc = "qualified"
  /\ \E out \in Generate(SlotPools(qb, rb, wr, te, flex, defense)) :
       /\ team' = out.team
       /\ err' = out.err
       /\ pc' = IF out.err = NoErr THEN "done" ELSE "error"
  /\ UNCHANGED <<stats, dk, dk_def, combo, qb_raw, wr_raw, rb_raw, te_raw,
                 flex_raw, qb, wr, rb, te, flex, defense, lineup>>

\* lineup_generator.py, lines 3-15: the import has run the combiner's module
\* body to its end; the positional pools are taken again from `combo`.
LG_Positions ==
  /\ pc = "done"
  /\ qb_raw' = ByFantPos(combo, "QB")
  /\ wr_raw' = ByFantPos(combo, "WR")
  /\ rb_raw' = ByFantPos(combo, "RB")
  /\ te_raw' = ByFantPos(combo, "TE")
  /\ flex_raw' = FlexRaw(combo)
  /\ pc' = "lg_positions"
  /\ UNCHANGED <<stats, dk, dk_def, combo, qb, wr, rb, te, flex, defense,
                 team, lineup, err>>

\* lineup_generator.py, lines 17-38: the same draws over the raw pools and the
\* whole DST pool.
LG_MakeLineup ==
  /\ pc = "lg_positions"
  /\ \E out \in Generate(SlotPools(qb_raw, rb_raw, wr_raw, te_raw, flex_raw, dk_def)) :
       /\ lineup' = out.team
       /\ err' = out.err
       /\ pc' = IF out.err = NoErr THEN "lg_done" ELSE "lg_error"
  /\ UNCHANGED <<stats, dk, dk_def, combo, qb_raw, wr_raw, rb_raw, te_raw,
                 flex_raw, qb, wr, rb, te, flex, defense, team>>

Next == Merge \/ Positions \/ Qualify \/ MakeTeam \/ LG_Positions \/ LG_MakeLineup

Spec == Init /\ [][Next]_vars

-----------------------------------------------------------------------------
(* vocabulary of the properties *)

\* The qualified pools exist (lines 55-84 have run).
Filtered == pc \notin {"start", "merged", "positions"}

\* The combiner's generation has ended, with a team or with an exception.
Ended == pc \notin {"start", "merged", "positions", "qualified"}

SlotIdx(slot) == CHOOSE i \in 1..Len(Slots) : Slots[i] = slot

SkillSlots == {"RB1", "RB2", "WR1", "WR2", "WR3", "TE", "FLEX"}

\* A lineup value: `team` of the combiner or `lineup` of lineup_generator.py.
Produced(t) == t # <<>>

Complete(t) ==
  /\ Len(t) = Len(Slots)
  /\ \A i \in 1..Len(t) : t[i] \in Rows(combo) \cup Rows(dk_def)

DistinctSkill(t) ==
  \A a \in SkillSlots, b \in SkillSlots :
    a # b => t[SlotIdx(a)].Name # t[SlotIdx(b)].Name

QualifiedPools == SlotPools(qb, rb, wr, te, flex, defense)

AllQualified(t) ==
  \A i \in 1..Len(t) : t[i] \in Rows(QualifiedPools[i])

SameValue(a, b) == Ge(a, b) /\ Ge(b, a)

-----------------------------------------------------------------------------
(* C1 *)

\* C1: in every lineup that generation produces, the players of the skill
\* slots RB1, RB2, WR1, WR2, WR3, TE and FLEX have pairwise distinct names.
C1_SkillSlotsDistinct ==
  /\ Produced(team) => DistinctSkill(team)
  /\ Produced(lineup) => DistinctSkill(lineup)

(* C2 *)

\* C2: in every generated lineup, the occupant of every one of the nine slots
\* is a member of the qualified pool of that slot's position.
C2_SlotsQualified ==
  /\ Produced(team) => AllQualified(team)
  /\ Produced(lineup) => AllQualified(lineup)

(* C3 *)

\* C3: generation never surfaces a partial lineup: a run ends either with all
\* nine slots bound to a record each, or with an exception and no lineup
\* value at all.
C3_NoPartialLineup ==
  /\ Produced(team) => Complete(team)
  /\ Produced(lineup) => Complete(lineup)
  /\ pc = "error" => ~Produced(team) /\ ~Produced(lineup) /\ err # NoErr
  /\ pc = "done" => Complete(team) /\ err = NoErr
  /\ pc = "lg_error" => ~Produced(lineup) /\ err # NoErr
  /\ pc = "lg_done" => Complete(team) /\ Complete(lineup) /\ err = NoErr

\* An abort after earlier slots could have been drawn: the QB and RB pools
\* have members, a later pool is empty, and no team exists.
C3_Witness ==
  /\ pc = "error"
  /\ qb # <<>> /\ rb # <<>>
  /\ err # NoErr
  /\ team = <<>>

(* C4 *)

\* C4: when exactly one RB qualifies (and no other pool is short), a
\* generation, which asks for RB1 and RB2, fails with InsufficientPlayersError
\* in every run; it never completes with the same RB in both slots.
C4_OneRBFails ==
  (Ended /\ Len(rb) = 1
         /\ qb # <<>> /\ wr # <<>> /\ te # <<>> /\ flex # <<>> /\ defense # <<>>) =>
    /\ pc = "error"
    /\ err.exc = "InsufficientPlayersError"
    /\ ~Produced(team)

(* C5 *)

\* C5: when the DST pool has no rows, generation ends in EmptyPoolError naming
\* "DST", and produces no lineup.
C5_EmptyDSTError ==
  (Ended /\ dk_def = <<>>) =>
    (err = [exc |-> "EmptyPoolError", at |-> "DST"] /\ ~Produced(team))

(* C6 *)

\* C6: no QB row with Pass_Att = 0 is in the qualified QB pool.
C6_NoZeroAttemptQB ==
  \A r \in Rows(qb) : ~SameValue(r.Pass_Att, Fin(0))

(* C7 *)

\* The RB pool of the example: Alice 20/2.0, Bob 5/0.5, Cara 22/3.0.
C7_Pool ==
  /\ Filtered
  /\ {<<r.Name, r.Att, r.VBD>> : r \in Rows(rb_raw)}
       = {<<"Alice", Fin(20), Fin(2)>>, <<"Bob", Fin(5), Frac(1, 2)>>,
          <<"Cara", Fin(22), Fin(3)>>}

\* C7 as stated: for that pool the threshold is 21, the qualified RB pool is
\* {Alice, Cara}, and the generation succeeds with RB1 and RB2 being Alice and
\* Cara in some order.
C7_AliceAndCara ==
  C7_Pool =>
    /\ SameValue(rb_attempts(rb_raw), Fin(21))
    /\ NamesOf(rb) = {"Alice", "Cara"}
    /\ Ended => /\ pc # "error"
                /\ {team[SlotIdx("RB1")].Name, team[SlotIdx("RB2")].Name}
                     = {"Alice", "Cara"}

\* C7 amended: for that pool the threshold is 21 and the qualified RB pool is
\* {Cara} alone: Alice's 20 attempts are below 21, Bob fails both cutoffs.
C7_OnlyCara ==
  C7_Pool =>
    /\ SameValue(rb_attempts(rb_raw), Fin(21))
    /\ NamesOf(rb) = {"Cara"}

\* The example pool has been filtered.
C7_Witness ==
  /\ C7_Pool
  /\ pc = "qualified"
  /\ Len(rb_raw) = Len(<<"Alice", "Bob", "Cara">>)
  /\ rb # <<>>

(* C8 *)

\* The players whose Salary is absent after the merge.
NoSalaryNames ==
  {r.Name : r \in {x \in Rows(MergeOrdered(stats, DkPlayers(dk))) : IsNull(x.Salary)}}

PlayerFrames == <<combo, qb_raw, wr_raw, rb_raw, te_raw, flex_raw,
                  qb, wr, rb, te, flex>>

SalaryPresent(frame, absent) ==
  \A r \in Rows(frame) : ~IsNull(r.Salary) /\ r.Name \notin absent

PlayerSlots(t) == [i \in 1..(Len(t) - 1) |-> t[i]]

\* C8: no record whose Salary is absent after the merge is a member of a
\* positional pool (raw or qualified) or of a generated lineup.
C8_SalaryPresent ==
  LET absent == NoSalaryNames
  IN  /\ \A i \in 1..Len(PlayerFrames) : SalaryPresent(PlayerFrames[i], absent)
      /\ Produced(team) => SalaryPresent(PlayerSlots(team), absent)
      /\ Produced(lineup) => SalaryPresent(PlayerSlots(lineup), absent)

\* A scraped player without a salary existed and lineups were generated.
C8_Witness ==
  /\ pc = "lg_done"
  /\ NoSalaryNames # {}
  /\ Complete(team) /\ Complete(lineup)

(* C9 *)

\* The k-th smallest cell of a column without NaN cells, by rank.
KthSmallest(col, k) ==
  CHOOSE v \in {col[i] : i \in 1..Len(col)} :
    /\ Cardinality({i \in 1..Len(col) : Gt(v, col[i])}) < k
    /\ Cardinality({i \in 1..Len(col) : Ge(v, col[i])}) >= k

\* x is at or above the 75th percentile (linear interpolation) of col:
\* x >= a + (r/4) * (b - a), a and b the neighbours of position 3(n-1)/4.
AtOrAbove75th(x, col) ==
  LET n  == Len(col)
      lo == ((3 * (n - 1)) \div 4) + 1
      r  == (3 * (n - 1)) % 4
      hi == IF lo < n THEN lo + 1 ELSE lo
      a  == KthSmallest(col, lo)
      b  == KthSmallest(col, hi)
  IN  /\ n > 0
      /\ x.k = "fin"
      /\ 4 * x.n * a.d * b.d
           >= x.d * ((4 - r) * a.n * b.d + r * b.n * a.d)

\* C9: a TE row is in the qualified TE pool iff its targets are at or above
\* the 75th percentile of the targets of the WR rows and its VBD is above 2;
\* the targets of the other TE rows play no part.
C9_TEThresholdFromWR ==
  Filtered =>
    \A r \in Rows(te_raw) :
      r \in Rows(te) <=>
        (AtOrAbove75th(r.Tgt, Column(wr_raw, "Tgt")) /\ Gt(r.VBD, Fin(2)))

\* A TE qualifies although its targets are below the 75th percentile of the
\* TE rows' own targets.
C9_Witness ==
  /\ Filtered
  /\ \E r \in Rows(te) : ~AtOrAbove75th(r.Tgt, Column(te_raw, "Tgt"))

(* C10 *)

Numeric(frame) == {r \in Rows(frame) : ~IsNull(r.AvgPointsPerGame)}

\* C10: when the DST pool has a row with a numeric AvgPointsPerGame, the
\* qualified DST pool is not empty: every row with the maximum is in it, and
\* the DST draw does not fail.
C10_DSTNeverEmpty ==
  (Filtered /\ Numeric(dk_def) # {}) =>
    /\ defense # <<>>
    /\ \A r \in Numeric(dk_def) :
         (\A o \in Numeric(dk_def) : Ge(r.AvgPointsPerGame, o.AvgPointsPerGame))
           => r \in Rows(defense)
    /\ err.at # "defenserng"

\* Two DST rows of which the cutoff drops one, and the team is made.
C10_Witness ==
  /\ pc = "done"
  /\ Len(dk_def) = Len(<<"Bears", "Colts">>)
  /\ Len(defense) < Len(dk_def)
  /\ team[SlotIdx("DST")] \in Rows(defense)

====
